---- MODULE Spec2Model ----
(***************************************************************************)
(* Model of the Heirloom command layer (src/heirloom/cli/__init__.py,      *)
(* class HeirloomManager) and of the console wrapper                       *)
(* (src/heirloom/console.py).                                              *)
(*                                                                         *)
(* The Record Store (database_functions), the Catalog Mirror and the       *)
(* installer backends (class Heirloom) are modules of the repository that  *)
(* the command layer imports; they are modelled from their contracts in    *)
(* spec.md sections 4.1 - 4.5.                                             *)
(***************************************************************************)
EXTENDS Naturals, Sequences, FiniteSets, TLC

VARIABLES
    store,         \* the Record Store table: records in insertion order
    disk,          \* the install directories that exist on disk
    consoleClass,  \* the class the name Console is bound to (cli line 12)
    quietGlobal,   \* what the free name `quiet` of install_game resolves to
    configFile,    \* base_install_dir as the configuration file has it
    inv            \* per invocation of the tool: position and locals

vars == <<store, disk, consoleClass, quietGlobal, configFile, inv>>

-----------------------------------------------------------------------------
(* Bounds *)

MaxCatalog == 2    \* entries in one version of the remote catalog
MaxCands == 2      \* candidate executables one installation reports

-----------------------------------------------------------------------------
(* Values *)

None == "None"
NOT_INSTALLED == "Not Installed"
NoKey == "NoKey"           \* a dict entry that has no such key

Procs == {1, 2}            \* concurrent invocations of the tool
Ids == {"u1", "u2"}
Names == {"A", "B"}

Entry(u, n) == [installer_uuid |-> u, game_name |-> n]

\* the entries the remote service may list: u2 is renamed, or shares its
\* name with u1, from one catalog version to the next
EntryPool == {Entry("u1", "A"), Entry("u2", "B"), Entry("u2", "A")}

RECURSIVE SeqsUpTo(_, _)
SeqsUpTo(S, n) ==
    IF n = 0 THEN {<<>>}
    ELSE LET shorter == SeqsUpTo(S, n - 1)
         IN  shorter \cup {Append(s, x) : s \in shorter, x \in S}

IdRank(u) == IF u = "u1" THEN 1 ELSE 2

\* a catalog version lists each id once; the service lists them in id order
ById(c) ==
    \A i, j \in DOMAIN c :
        i < j => IdRank(c[i].installer_uuid) < IdRank(c[j].installer_uuid)

Catalogs == {c \in SeqsUpTo(EntryPool, MaxCatalog) : ById(c)}

ExePaths == {"bin/a.exe", "b.exe"}
CandidateLists == SeqsUpTo(ExePaths, MaxCands)

\* result["install_path"]: the backend installs a title under its name
InstallPath(game) ==
    CASE game = "A" -> "base/A"
      [] game = "B" -> "base/B"
      [] OTHER -> "base/?"

InstallDirs == {InstallPath(n) : n \in Names}

NoRecord ==
    [uuid |-> None, name |-> None, install_dir |-> None, executable |-> None]

Record(u, n, d, e) ==
    [uuid |-> u, name |-> n, install_dir |-> d, executable |-> e]

NoResult == [status |-> None, install_path |-> None, executable_files |-> <<>>]

\* executable_file = path.split('/')[-1]
Basename(path) ==
    CASE path = "bin/a.exe" -> "a.exe"
      [] path = "b.exe" -> "b.exe"
      [] OTHER -> path

\* f'{install_path}\\{executable_file}'
Join(install_path, executable_file) ==
    CASE install_path = "base/A" /\ executable_file = "a.exe" -> "base/A\\a.exe"
      [] install_path = "base/A" /\ executable_file = "b.exe" -> "base/A\\b.exe"
      [] install_path = "base/B" /\ executable_file = "a.exe" -> "base/B\\a.exe"
      [] install_path = "base/B" /\ executable_file = "b.exe" -> "base/B\\b.exe"
      [] OTHER -> "?"

-----------------------------------------------------------------------------
(* Record Store (spec.md 4.1): database_functions *)

WithUuid(db, uuid) == {i \in DOMAIN db : db[i].uuid = uuid}

WithName(db, name) == {i \in DOMAIN db : db[i].name = name}

First(S) == CHOOSE i \in S : \A j \in S : i <= j

\* get(titleId?, name?): the record with that id, or the first record by
\* insertion order with that name, or none
read_game_record(db, uuid, name) ==
    LET hits == IF uuid # None THEN WithUuid(db, uuid) ELSE WithName(db, name)
    IN  IF hits = {} THEN NoRecord ELSE db[First(hits)]

\* upsert(record): insert if absent, else overwrite every field but the id
write_game_record(db, name, uuid, install_dir, executable) ==
    LET hits == WithUuid(db, uuid)
        rec == Record(uuid, name, install_dir, executable)
    IN  IF hits = {} THEN Append(db, rec)
        ELSE [i \in DOMAIN db |-> IF i \in hits THEN rec ELSE db[i]]

\* delete(titleId): removes the record; a no-op if there is none
delete_game_record(db, uuid) ==
    SelectSeq(db, LAMBDA r : r.uuid # uuid)

\* initializeFrom(catalog): a placeholder for every entry with no record
RECURSIVE init_games_db(_, _)
init_games_db(db, games) ==
    IF games = <<>> THEN db
    ELSE LET g == Head(games)
             have == read_game_record(db, g.installer_uuid, None) # NoRecord
             next == IF have THEN db
                     ELSE Append(db, Record(g.installer_uuid, g.game_name,
                                            NOT_INSTALLED, NOT_INSTALLED))
         IN  init_games_db(next, Tail(games))

\* the live disk probe of 4.3 step 2: the executable lives in the install
\* directory and exists as long as that directory does
Probe(r, fs) == r.executable # NOT_INSTALLED /\ r.install_dir \in fs

\* the reconciliation pass (4.3): downgrade every record whose probe fails
refresh_game_installation_status(db, fs) ==
    [i \in DOMAIN db |->
        IF db[i].install_dir # NOT_INSTALLED /\ ~Probe(db[i], fs)
        THEN [db[i] EXCEPT !.install_dir = NOT_INSTALLED,
                           !.executable = NOT_INSTALLED]
        ELSE db[i]]

-----------------------------------------------------------------------------
(* Catalog Mirror (spec.md 4.2): class Heirloom *)

\* heirloom.games after refresh_games_list: the fetched entries, as fetched
FreshGames(catalog) ==
    [i \in DOMAIN catalog |->
        [installer_uuid |-> catalog[i].installer_uuid,
         game_name |-> catalog[i].game_name,
         install_dir |-> NoKey, executable |-> NoKey]]

\* findByName: NotFound on no match, Ambiguous on several, never a pick
get_uuid_from_name(games, name) ==
    LET hits == {i \in DOMAIN games : games[i].game_name = name}
    IN  IF hits = {} THEN "NotFound"
        ELSE IF Cardinality(hits) > 1 THEN "Ambiguous"
        ELSE games[First(hits)].installer_uuid

\* findByTitleId
get_game_from_uuid(games, uuid) ==
    LET hits == {i \in DOMAIN games : games[i].installer_uuid = uuid}
    IN  IF hits = {} THEN "NotFound" ELSE games[First(hits)].game_name

IsError(x) == x \in {"NotFound", "Ambiguous"}

-----------------------------------------------------------------------------
(* Console (src/heirloom/console.py) *)

\* Console.status: both branches fall off the end of the method
ConsoleStatus(quiet) ==
    IF ~quiet THEN None ELSE None

\* self.console.status(...): the object the `with` statement is given
StatusObject(p) ==
    IF consoleClass = "heirloom.console.Console"
    THEN ConsoleStatus(inv[p].quiet)
    ELSE "ContextManager"

\* `with obj:` raises before its body when obj is no context manager
WithRaises(p) == StatusObject(p) = None

-----------------------------------------------------------------------------
(* class HeirloomManager (src/heirloom/cli/__init__.py) *)

\* merge_game_data_with_db: by id, then by name, else leave the entry alone
merge_game_data_with_db(db, games) ==
    [i \in DOMAIN games |->
        LET byId == read_game_record(db, games[i].installer_uuid, None)
            record == IF byId # NoRecord THEN byId
                      ELSE read_game_record(db, None, games[i].game_name)
        IN  IF record # NoRecord
            THEN [games[i] EXCEPT !.install_dir = record.install_dir,
                                  !.executable = record.executable]
            ELSE games[i]]

Idle ==
    [pc |-> "idle", cmd |-> None, quiet |-> FALSE, game |-> None, uuid |-> None,
     installed |-> FALSE, not_installed |-> FALSE,
     games |-> <<>>, db |-> FALSE, result |-> NoResult, status |-> None,
     base_install_dir |-> None,   \* self.config.get('base_install_dir')
     \* what the command did, kept for the properties
     reconciled |-> FALSE,   \* a reconciliation pass has completed
     missing0 |-> {},        \* ids installed on record, gone from disk, at start
     backend |-> None,       \* the backend operation that was invoked
     store0 |-> <<>>,        \* the Record Store when the backend was invoked
     committed |-> FALSE,    \* write_game_record / delete_game_record was called
     selected |-> FALSE,     \* select_from_games_list was called
     prompted |-> FALSE,     \* the executable prompt was shown ...
     choices |-> <<>>,       \* ... with these choices
     listed |-> <<>>,        \* the ids `list` emitted
     reads |-> {},           \* <<entry id, id of the record consulted for it>>
     launched |-> None,      \* the path handed to the external process
     asked |-> FALSE]        \* input() of line 190 was called

Init ==
    /\ store = <<>>
    /\ disk = {}
    /\ consoleClass \in {"heirloom.console.Console", "ContextManager"}
    /\ quietGlobal \in {"NameError", "False"}
    /\ configFile = None
    /\ inv = [p \in Procs |-> Idle]

\* the except clause without its `raise e`: the error is printed and the
\* method goes on
Raise_Swallowed(p, e) ==
    inv' = [inv EXCEPT ![p].status = e]

\* an exception leaves the command: the process ends with the error
Raise(p, e) ==
    inv' = [inv EXCEPT ![p].pc = "done", ![p].status = e]

\* ids whose record says installed while the directory is gone
Missing(db, fs) ==
    {db[i].uuid : i \in {j \in DOMAIN db :
        db[j].install_dir # NOT_INSTALLED /\ db[j].install_dir \notin fs}}

\* main(), lines 287-290, hands the manager a dict read from the
\* configuration file; every command but login starts with
\* self.refresh(quiet), and refresh with self.login(quiet)
Begin(p, c, q, g, u) ==
    /\ inv[p].pc = "idle"
    /\ inv' = [inv EXCEPT ![p] = [Idle EXCEPT !.pc = "login", !.cmd = c,
                                              !.quiet = q, !.game = g, !.uuid = u,
                                              !.missing0 = Missing(store, disk),
                                              !.base_install_dir = configFile]]
    /\ UNCHANGED <<store, disk, consoleClass, quietGlobal, configFile>>

GameArgs == Names \cup {None}
UuidArgs == Ids \cup {None}

\* the command `login`
login(p) ==
    \E q \in BOOLEAN : Begin(p, "login", q, None, None)

\* the command `refresh`
refresh(p) ==
    \E q \in BOOLEAN : Begin(p, "refresh", q, None, None)

\* the command `list`
list_games(p) ==
    \E q, i, n \in BOOLEAN :
        /\ inv[p].pc = "idle"
        /\ inv' = [inv EXCEPT ![p] = [Idle EXCEPT !.pc = "login", !.cmd = "list",
                                        !.quiet = q, !.installed = i,
                                        !.not_installed = n,
                                        !.missing0 = Missing(store, disk),
                                        !.base_install_dir = configFile]]
        /\ UNCHANGED <<store, disk, consoleClass, quietGlobal, configFile>>

\* the command `download`
download_game(p) ==
    \E q \in BOOLEAN, g \in GameArgs, u \in UuidArgs : Begin(p, "download", q, g, u)

\* the command `install`: line 186 reads the name `quiet`, which is no
\* parameter of install_game
InstallStart(p, g, u) ==
    IF quietGlobal = "NameError"
    THEN /\ inv[p].pc = "idle"
         /\ inv' = [inv EXCEPT ![p] = [Idle EXCEPT !.pc = "done",
                                         !.cmd = "install", !.game = g,
                                         !.uuid = u, !.status = "NameError",
                                         !.missing0 = Missing(store, disk),
                                         !.base_install_dir = configFile]]
         /\ UNCHANGED <<store, disk, consoleClass, quietGlobal, configFile>>
    ELSE Begin(p, "install", quietGlobal = "True", g, u)

install_game(p) ==
    \E g \in GameArgs, u \in UuidArgs : InstallStart(p, g, u)

\* the command `info`
info(p) ==
    \E q \in BOOLEAN, g \in GameArgs, u \in UuidArgs : Begin(p, "info", q, g, u)

\* the command `uninstall`
uninstall(p) ==
    \E q \in BOOLEAN, g \in GameArgs, u \in UuidArgs : Begin(p, "uninstall", q, g, u)

\* the command `launch`
launch(p) ==
    \E q \in BOOLEAN, g \in GameArgs, u \in UuidArgs : Begin(p, "launch", q, g, u)

\* login(): _init_console, then heirloom.login() inside the status block
LoginStep(p) ==
    /\ inv[p].pc = "login"
    /\ UNCHANGED <<store, disk, consoleClass, quietGlobal, configFile>>
    /\ IF WithRaises(p) THEN Raise(p, "TypeError")
       ELSE \/ Raise(p, "AuthExpired")
            \/ inv' = [inv EXCEPT ![p].pc = IF inv[p].cmd = "login" THEN "done"
                                            ELSE "refresh_games_list",
                                  ![p].status = IF inv[p].cmd = "login" THEN "ok"
                                                ELSE None]

\* refresh(), lines 107-108: heirloom.refresh_games_list()
RefreshGamesList(p) ==
    /\ inv[p].pc = "refresh_games_list"
    /\ UNCHANGED <<store, disk, consoleClass, quietGlobal, configFile>>
    /\ IF WithRaises(p) THEN Raise(p, "TypeError")
       ELSE \/ Raise(p, "NetworkError")
            \/ \E c \in Catalogs :
                 inv' = [inv EXCEPT ![p].pc = "init_games_db",
                                    ![p].games = FreshGames(c)]

\* the table created anew on every refresh
RefreshInitDb_Recreate(p) ==
    /\ inv[p].pc = "init_games_db"
    /\ UNCHANGED <<disk, consoleClass, quietGlobal, configFile>>
    /\ IF WithRaises(p) THEN Raise(p, "TypeError") /\ UNCHANGED store
       ELSE /\ store' = init_games_db(<<>>, inv[p].games)
            /\ inv' = [inv EXCEPT ![p].pc = "merge", ![p].db = TRUE]

\* refresh(), lines 109-110: self.config['db'] = init_games_db(...)
RefreshInitDb(p) ==
    /\ inv[p].pc = "init_games_db"
    /\ UNCHANGED <<disk, consoleClass, quietGlobal, configFile>>
    /\ IF WithRaises(p) THEN Raise(p, "TypeError") /\ UNCHANGED store
       ELSE \/ Raise(p, "IOError") /\ UNCHANGED store
            \/ /\ store' = init_games_db(store, inv[p].games)
               /\ inv' = [inv EXCEPT ![p].pc = "merge", ![p].db = TRUE]

\* refresh(), lines 111-112: merge_game_data_with_db()
RefreshMerge(p) ==
    /\ inv[p].pc = "merge"
    /\ UNCHANGED <<store, disk, consoleClass, quietGlobal, configFile>>
    /\ IF WithRaises(p) THEN Raise(p, "TypeError")
       ELSE \/ Raise(p, "IOError")
            \/ inv' = [inv EXCEPT ![p].pc = "reconcile",
                                  ![p].games = merge_game_data_with_db(store, inv[p].games)]

\* where a command goes on when self.refresh(quiet) has returned
AfterRefresh(c) ==
    CASE c = "refresh" -> "done"
      [] c = "list" -> "list133"
      [] c = "download" -> "download170"
      [] c = "install" -> "install187"
      [] c = "info" -> "info231"
      [] c = "uninstall" -> "uninstall248"
      [] c = "launch" -> "launch271"

\* refresh() without its line 113
RefreshReconcile_Skipped(p) ==
    /\ inv[p].pc = "reconcile"
    /\ UNCHANGED <<store, disk, consoleClass, quietGlobal, configFile>>
    /\ inv' = [inv EXCEPT ![p].pc = AfterRefresh(inv[p].cmd),
                          ![p].status = IF inv[p].cmd = "refresh" THEN "ok" ELSE None]

\* refresh(), line 113: refresh_game_installation_status(db)
RefreshReconcile(p) ==
    /\ inv[p].pc = "reconcile"
    /\ UNCHANGED <<disk, consoleClass, quietGlobal, configFile>>
    /\ store' = refresh_game_installation_status(store, disk)
    /\ inv' = [inv EXCEPT ![p].pc = AfterRefresh(inv[p].cmd),
                          ![p].reconciled = TRUE,
                          ![p].status = IF inv[p].cmd = "refresh" THEN "ok" ELSE None]

-----------------------------------------------------------------------------
(* select_from_games_list, lines 73-80 *)

\* line 79 reads g['install_dir'] of every entry; line 77 does not
Choices(games, installed_only) ==
    IF installed_only
    THEN {games[i].game_name : i \in {j \in DOMAIN games :
                                        games[j].install_dir # NOT_INSTALLED}}
    ELSE {games[i].game_name : i \in DOMAIN games}

\* the outcomes of one call on a freshly fetched list: an error, or the
\* name the user picks
SelectOn(games, installed_only) ==
    IF installed_only /\ \E i \in DOMAIN games : games[i].install_dir = NoKey
    THEN {[games |-> games, game |-> None, err |-> "KeyError"]}
    ELSE IF Choices(games, installed_only) = {}
    THEN {[games |-> games, game |-> None, err |-> "InvalidArgument"]}
    ELSE {[games |-> games, game |-> n, err |-> None] :
            n \in Choices(games, installed_only)}

\* select_from_games_list: refresh_games_list() replaces heirloom.games
select_from_games_list(p, installed_only) ==
    {[games |-> inv[p].games, game |-> None, err |-> "NetworkError"]}
    \cup UNION {SelectOn(FreshGames(c), installed_only) : c \in Catalogs}

-----------------------------------------------------------------------------
(* list_games, lines 120-158 *)

\* line 133: the second reconciliation pass
ListReconcile(p) ==
    /\ inv[p].pc = "list133"
    /\ UNCHANGED <<disk, consoleClass, quietGlobal, configFile>>
    /\ store' = refresh_game_installation_status(store, disk)
    /\ inv' = [inv EXCEPT ![p].pc = "list135", ![p].reconciled = TRUE]

\* lines 130-132
BothFlags(p) == inv[p].installed /\ inv[p].not_installed

\* lines 136-142: whether the loop skips entry g
ListSkips(p, db, g) ==
    LET record == read_game_record(db, None, g.game_name)
        installed == inv[p].installed /\ ~BothFlags(p)
        not_installed == inv[p].not_installed /\ ~BothFlags(p)
    IN  IF record # NoRecord /\ record.install_dir # NOT_INSTALLED
        THEN not_installed
        ELSE IF record # NoRecord /\ record.install_dir = NOT_INSTALLED
        THEN installed
        ELSE FALSE

RECURSIVE ListLoop(_, _, _)
ListLoop(p, db, games) ==
    IF games = <<>> THEN <<>>
    ELSE LET rest == ListLoop(p, db, Tail(games))
         IN  IF ListSkips(p, db, Head(games)) THEN rest
             ELSE <<Head(games).installer_uuid>> \o rest

\* lines 134-158: the loop and the output
ListEmit(p) ==
    /\ inv[p].pc = "list135"
    /\ UNCHANGED <<store, disk, consoleClass, quietGlobal, configFile>>
    /\ inv' = [inv EXCEPT
                 ![p].pc = "done", ![p].status = "ok",
                 ![p].listed = ListLoop(p, store, inv[p].games),
                 ![p].reads = {<<inv[p].games[i].installer_uuid,
                                 read_game_record(store, None,
                                                  inv[p].games[i].game_name).uuid>> :
                               i \in DOMAIN inv[p].games}]

-----------------------------------------------------------------------------
(* download_game, lines 161-175, and info, lines 222-236 *)

\* lines 170-173 and 232-235: by id if given, else by name, else select
ResolveByIdThenName(p, next) ==
    LET byId == IF inv[p].uuid # None
                THEN get_game_from_uuid(inv[p].games, inv[p].uuid)
                ELSE inv[p].game
    IN  IF IsError(byId) THEN Raise(p, byId)
        ELSE IF byId # None
        THEN inv' = [inv EXCEPT ![p].pc = next, ![p].game = byId]
        ELSE \E s \in select_from_games_list(p, FALSE) :
                IF s.err # None
                THEN inv' = [inv EXCEPT ![p].pc = "done", ![p].status = s.err,
                                        ![p].selected = TRUE, ![p].games = s.games]
                ELSE inv' = [inv EXCEPT ![p].pc = next, ![p].game = s.game,
                                        ![p].selected = TRUE, ![p].games = s.games]

DownloadResolve(p) ==
    /\ inv[p].pc = "download170"
    /\ UNCHANGED <<store, disk, consoleClass, quietGlobal, configFile>>
    /\ ResolveByIdThenName(p, "download174")

\* download keeping a record of the title it fetched
DownloadFetch_Recording(p) ==
    /\ inv[p].pc = "download174"
    /\ UNCHANGED <<disk, consoleClass, quietGlobal, configFile>>
    /\ LET id == get_uuid_from_name(inv[p].games, inv[p].game)
       IN  IF IsError(id) THEN Raise(p, id) /\ UNCHANGED store
           ELSE /\ store' = write_game_record(store, inv[p].game, id,
                                              NOT_INSTALLED, NOT_INSTALLED)
                /\ inv' = [inv EXCEPT ![p].pc = "done", ![p].status = "ok",
                                      ![p].backend = "download"]

\* line 174: heirloom.download_game(game, output_dir='./')
DownloadFetch(p) ==
    /\ inv[p].pc = "download174"
    /\ UNCHANGED <<store, disk, consoleClass, quietGlobal, configFile>>
    /\ LET id == get_uuid_from_name(inv[p].games, inv[p].game)
       IN  IF IsError(id) THEN Raise(p, id)
           ELSE \/ Raise(p, "IOError")
                \/ inv' = [inv EXCEPT ![p].pc = "done", ![p].status = "ok",
                                      ![p].backend = "download"]

\* line 231
InfoMerge(p) ==
    /\ inv[p].pc = "info231"
    /\ UNCHANGED <<store, disk, consoleClass, quietGlobal, configFile>>
    /\ inv' = [inv EXCEPT ![p].pc = "info232",
                          ![p].games = merge_game_data_with_db(store, inv[p].games)]

InfoResolve(p) ==
    /\ inv[p].pc = "info232"
    /\ UNCHANGED <<store, disk, consoleClass, quietGlobal, configFile>>
    /\ ResolveByIdThenName(p, "info236")

\* line 236: heirloom.dump_game_data(game)
InfoDump(p) ==
    /\ inv[p].pc = "info236"
    /\ UNCHANGED <<store, disk, consoleClass, quietGlobal, configFile>>
    /\ LET id == get_uuid_from_name(inv[p].games, inv[p].game)
       IN  IF IsError(id) THEN Raise(p, id)
           ELSE inv' = [inv EXCEPT ![p].pc = "done", ![p].status = "ok"]

-----------------------------------------------------------------------------
(* install_game, lines 178-219 *)

\* line 187
InstallReconcile(p) ==
    /\ inv[p].pc = "install187"
    /\ UNCHANGED <<disk, consoleClass, quietGlobal, configFile>>
    /\ store' = refresh_game_installation_status(store, disk)
    /\ inv' = [inv EXCEPT ![p].pc = "install188", ![p].reconciled = TRUE]

\* line 188
InstallMerge(p) ==
    /\ inv[p].pc = "install188"
    /\ UNCHANGED <<store, disk, consoleClass, quietGlobal, configFile>>
    /\ inv' = [inv EXCEPT ![p].pc = "install189",
                          ![p].games = merge_game_data_with_db(store, inv[p].games)]

\* what the user may type at the prompt of line 190
BaseDirInputs == {"", "base"}

\* `not self.config.get('base_install_dir')`: the key is missing or empty
Falsy(x) == x \in {None, ""}

\* lines 189-192: one turn of the while loop, or, with a value in
\* self.config, the makedirs of the base directory (the directory every
\* InstallPath lies under; no probe looks at it)
InstallBaseDir(p) ==
    /\ inv[p].pc = "install189"
    /\ UNCHANGED <<store, disk, consoleClass, quietGlobal, configFile>>
    /\ IF Falsy(inv[p].base_install_dir)
       THEN \E typed \in BaseDirInputs :
              inv' = [inv EXCEPT ![p].base_install_dir = typed,
                                 ![p].asked = TRUE]
       ELSE inv' = [inv EXCEPT ![p].pc = "install193"]

\* lines 193-199: fill in whichever of game and uuid was not given
InstallResolve(p) ==
    /\ inv[p].pc = "install193"
    /\ UNCHANGED <<store, disk, consoleClass, quietGlobal, configFile>>
    /\ IF inv[p].game = None /\ inv[p].uuid = None
       THEN \E s \in select_from_games_list(p, FALSE) :
              LET id == get_uuid_from_name(s.games, s.game)
              IN  IF s.err # None \/ IsError(id)
                  THEN inv' = [inv EXCEPT ![p].pc = "done",
                                 ![p].status = IF s.err # None THEN s.err ELSE id,
                                 ![p].selected = TRUE, ![p].games = s.games]
                  ELSE inv' = [inv EXCEPT ![p].pc = "install200",
                                 ![p].game = s.game, ![p].uuid = id,
                                 ![p].selected = TRUE, ![p].games = s.games]
       ELSE IF inv[p].game = None
       THEN LET name == get_game_from_uuid(inv[p].games, inv[p].uuid)
            IN  IF IsError(name) THEN Raise(p, name)
                ELSE inv' = [inv EXCEPT ![p].pc = "install200", ![p].game = name]
       ELSE IF inv[p].uuid = None
       THEN LET id == get_uuid_from_name(inv[p].games, inv[p].game)
            IN  IF IsError(id) THEN Raise(p, id)
                ELSE inv' = [inv EXCEPT ![p].pc = "install200", ![p].uuid = id]
       ELSE inv' = [inv EXCEPT ![p].pc = "install200"]

\* lines 200-203: heirloom.install_game(game[, installation_method]); the
\* backend downloads the title of that name and installs it under the base
\* directory (4.4 install, steps 1-3)
InstallBackend(p) ==
    /\ inv[p].pc = "install200"
    /\ UNCHANGED <<store, consoleClass, quietGlobal, configFile>>
    /\ LET id == get_uuid_from_name(inv[p].games, inv[p].game)
           path == InstallPath(inv[p].game)
           called == [inv EXCEPT ![p].backend = "install", ![p].store0 = store]
       IN  IF IsError(id)
           THEN /\ inv' = [called EXCEPT ![p].pc = "done", ![p].status = id]
                /\ UNCHANGED disk
           ELSE \/ /\ inv' = [called EXCEPT ![p].pc = "done", ![p].status = "IOError"]
                   /\ UNCHANGED disk
                \/ /\ inv' = [called EXCEPT ![p].pc = "install204",
                                ![p].result = [NoResult EXCEPT !.status = "failed"]]
                   /\ disk' \in {disk, disk \cup {path}}
                \/ \E files \in CandidateLists :
                   /\ inv' = [called EXCEPT ![p].pc = "install204",
                                ![p].result = [status |-> "success",
                                               install_path |-> path,
                                               executable_files |-> files]]
                   /\ disk' = disk \cup {path}

\* `answer` given the sentinel as a default before line 206
Answer_Default(result, choice) ==
    IF Len(result.executable_files) = 1
    THEN Join(result.install_path, Basename(result.executable_files[1]))
    ELSE IF Len(result.executable_files) > 1
    THEN Join(result.install_path, Basename(choice))
    ELSE NOT_INSTALLED

\* lines 206-215: the value of `answer` when line 216 reads it, for the
\* choice the user makes if asked
Answer(result, choice) ==
    IF Len(result.executable_files) = 1
    THEN Join(result.install_path, Basename(result.executable_files[1]))
    ELSE IF Len(result.executable_files) > 1
    THEN Join(result.install_path, Basename(choice))
    ELSE "UnboundLocalError"

\* the prompt shown for a single candidate too
Prompts_AtLeastOne(result) == Len(result.executable_files) >= 1

\* line 212 is reached
Prompts(result) == Len(result.executable_files) > 1

\* the test written as `if result.get('status'):`
Succeeded_Truthy(result) == result.status # None

\* lines 204 and 254: result.get('status') == 'success'
Succeeded(result) == result.status = "success"

\* the commit as a read-modify-write of the table read before the backend
\* ran, with nothing held in between
InstallCommit_Stale(p) ==
    /\ inv[p].pc = "install204"
    /\ UNCHANGED <<disk, consoleClass, quietGlobal, configFile>>
    /\ LET result == inv[p].result
       IN  IF Succeeded(result) /\ Len(result.executable_files) = 1
           THEN /\ store' = write_game_record(inv[p].store0, inv[p].game,
                               inv[p].uuid, result.install_path, Answer(result, None))
                /\ inv' = [inv EXCEPT ![p].pc = "done", ![p].status = "ok",
                                      ![p].committed = TRUE]
           ELSE /\ inv' = [inv EXCEPT ![p].pc = "done", ![p].status = "failed"]
                /\ UNCHANGED store

\* lines 204-219
InstallCommit(p) ==
    /\ inv[p].pc = "install204"
    /\ UNCHANGED <<disk, consoleClass, quietGlobal, configFile>>
    /\ LET result == inv[p].result
       IN  IF Succeeded(result)
           THEN \E choice \in IF Prompts(result)
                              THEN {result.executable_files[i] :
                                      i \in DOMAIN result.executable_files}
                              ELSE {None} :
                  LET answer == Answer(result, choice)
                      asked == [inv EXCEPT
                                  ![p].prompted = Prompts(result),
                                  ![p].choices = IF Prompts(result)
                                                 THEN result.executable_files
                                                 ELSE <<>>]
                  IN  IF answer = "UnboundLocalError"
                      THEN /\ inv' = [asked EXCEPT ![p].pc = "done",
                                                   ![p].status = answer]
                           /\ UNCHANGED store
                      ELSE /\ store' = write_game_record(store, inv[p].game,
                                          inv[p].uuid, result.install_path, answer)
                           /\ inv' = [asked EXCEPT ![p].pc = "done",
                                                   ![p].status = "ok",
                                                   ![p].committed = TRUE]
           ELSE /\ inv' = [inv EXCEPT ![p].pc = "done", ![p].status = "failed"]
                /\ UNCHANGED store

-----------------------------------------------------------------------------
(* uninstall, lines 239-259 *)

\* line 248
UninstallReconcile(p) ==
    /\ inv[p].pc = "uninstall248"
    /\ UNCHANGED <<disk, consoleClass, quietGlobal, configFile>>
    /\ store' = refresh_game_installation_status(store, disk)
    /\ inv' = [inv EXCEPT ![p].pc = "uninstall249", ![p].reconciled = TRUE]

\* lines 249-252: uuid is only ever read, never filled in
UninstallResolve(p) ==
    /\ inv[p].pc = "uninstall249"
    /\ UNCHANGED <<store, disk, consoleClass, quietGlobal, configFile>>
    /\ LET byId == IF inv[p].uuid # None
                   THEN get_game_from_uuid(inv[p].games, inv[p].uuid)
                   ELSE inv[p].game
       IN  IF IsError(byId) THEN Raise(p, byId)
           ELSE IF byId # None
           THEN inv' = [inv EXCEPT ![p].pc = "uninstall253", ![p].game = byId]
           ELSE \E s \in select_from_games_list(p, TRUE) :
                  IF s.err # None
                  THEN inv' = [inv EXCEPT ![p].pc = "done", ![p].status = s.err,
                                 ![p].selected = TRUE, ![p].games = s.games]
                  ELSE inv' = [inv EXCEPT ![p].pc = "uninstall253",
                                 ![p].game = s.game,
                                 ![p].selected = TRUE, ![p].games = s.games]

\* line 253: heirloom.uninstall_game(game): the removal backend
UninstallBackend(p) ==
    /\ inv[p].pc = "uninstall253"
    /\ UNCHANGED <<store, consoleClass, quietGlobal, configFile>>
    /\ LET id == get_uuid_from_name(inv[p].games, inv[p].game)
           path == InstallPath(inv[p].game)
           called == [inv EXCEPT ![p].backend = "uninstall", ![p].store0 = store]
       IN  IF IsError(id)
           THEN /\ inv' = [called EXCEPT ![p].pc = "done", ![p].status = id]
                /\ UNCHANGED disk
           ELSE \/ /\ inv' = [called EXCEPT ![p].pc = "uninstall254",
                                ![p].result = [NoResult EXCEPT !.status = "failed"]]
                   /\ disk' \in {disk, disk \ {path}}
                \/ /\ inv' = [called EXCEPT ![p].pc = "uninstall254",
                                ![p].result = [NoResult EXCEPT !.status = "success"]]
                   /\ disk' = disk \ {path}

\* lines 254-259
UninstallCommit(p) ==
    /\ inv[p].pc = "uninstall254"
    /\ UNCHANGED <<disk, consoleClass, quietGlobal, configFile>>
    /\ IF Succeeded(inv[p].result)
       THEN /\ store' = delete_game_record(store, inv[p].uuid)
            /\ inv' = [inv EXCEPT ![p].pc = "done", ![p].status = "ok",
                                  ![p].committed = TRUE]
       ELSE /\ inv' = [inv EXCEPT ![p].pc = "done", ![p].status = "failed"]
            /\ UNCHANGED store

-----------------------------------------------------------------------------
(* launch, lines 262-281 *)

\* lines 271-276
LaunchResolve(p) ==
    /\ inv[p].pc = "launch271"
    /\ UNCHANGED <<store, disk, consoleClass, quietGlobal, configFile>>
    /\ \E s \in IF inv[p].game = None
                THEN select_from_games_list(p, TRUE)
                ELSE {[games |-> inv[p].games, game |-> inv[p].game, err |-> None]} :
         LET sel == [inv EXCEPT ![p].selected = inv[p].game = None,
                                ![p].games = s.games]
             name == IF inv[p].uuid # None
                     THEN get_game_from_uuid(s.games, inv[p].uuid)
                     ELSE s.game
             id == IF inv[p].uuid # None THEN inv[p].uuid
                   ELSE get_uuid_from_name(s.games, s.game)
         IN  IF s.err # None
             THEN inv' = [sel EXCEPT ![p].pc = "done", ![p].status = s.err]
             ELSE IF IsError(name) \/ IsError(id)
             THEN inv' = [sel EXCEPT ![p].pc = "done",
                            ![p].status = IF IsError(name) THEN name ELSE id]
             ELSE inv' = [sel EXCEPT ![p].pc = "launch277",
                            ![p].game = name, ![p].uuid = id]

\* lines 277-281: record['executable'] of no record is a TypeError
LaunchRun(p) ==
    /\ inv[p].pc = "launch277"
    /\ UNCHANGED <<store, disk, consoleClass, quietGlobal, configFile>>
    /\ LET record == read_game_record(store, inv[p].uuid, None)
       IN  IF record = NoRecord THEN Raise(p, "TypeError")
           ELSE inv' = [inv EXCEPT ![p].pc = "done", ![p].status = "ok",
                                   ![p].launched = record.executable]

-----------------------------------------------------------------------------

\* the process exits: the session state is discarded
Exit(p) ==
    /\ inv[p].pc = "done"
    /\ inv' = [inv EXCEPT ![p] = Idle]
    /\ UNCHANGED <<store, disk, consoleClass, quietGlobal, configFile>>

\* an install directory is removed from disk by something else, between
\* two invocations of the tool
DiskRemove ==
    /\ \A p \in Procs : inv[p].pc = "idle"
    /\ \E d \in disk : disk' = disk \ {d}
    /\ UNCHANGED <<store, consoleClass, quietGlobal, configFile, inv>>

Step(p) ==
    \/ login(p)
    \/ refresh(p)
    \/ list_games(p)
    \/ download_game(p)
    \/ install_game(p)
    \/ info(p)
    \/ uninstall(p)
    \/ launch(p)
    \/ LoginStep(p)
    \/ RefreshGamesList(p)
    \/ RefreshInitDb(p)
    \/ RefreshMerge(p)
    \/ RefreshReconcile(p)
    \/ ListReconcile(p)
    \/ ListEmit(p)
    \/ DownloadResolve(p)
    \/ DownloadFetch(p)
    \/ InfoMerge(p)
    \/ InfoResolve(p)
    \/ InfoDump(p)
    \/ InstallReconcile(p)
    \/ InstallMerge(p)
    \/ InstallBaseDir(p)
    \/ InstallResolve(p)
    \/ InstallBackend(p)
    \/ InstallCommit(p)
    \/ UninstallReconcile(p)
    \/ UninstallResolve(p)
    \/ UninstallBackend(p)
    \/ UninstallCommit(p)
    \/ LaunchResolve(p)
    \/ LaunchRun(p)
    \/ Exit(p)

\* one invocation of the tool at a time
Next ==
    \/ \E p \in {1} : Step(p)
    \/ DiskRemove

Spec == Init /\ [][Next]_vars

-----------------------------------------------------------------------------
(* Two invocations of the tool at once, each working on a title of its own *)

TitleOf(p) == IF p = 1 THEN "u1" ELSE "u2"

\* install --uuid <own title>
ConcInstall(p) == InstallStart(p, None, TitleOf(p))

\* uninstall --uuid <own title>
ConcUninstall(p) == Begin(p, "uninstall", FALSE, None, TitleOf(p))

\* refresh
ConcRefresh(p) == Begin(p, "refresh", FALSE, None, None)

\* both invocations are served the same catalog version
FullCatalog == <<Entry("u1", "A"), Entry("u2", "B")>>

ConcRefreshGamesList(p) ==
    /\ RefreshGamesList(p)
    /\ inv'[p].pc = "init_games_db" => inv'[p].games = FreshGames(FullCatalog)

\* the installation reports one executable, or fails
ConcInstallBackend(p) ==
    /\ InstallBackend(p)
    /\ inv'[p].result.executable_files \in {<<>>, <<"bin/a.exe">>}

StepConc(p) ==
    \/ ConcInstall(p)
    \/ ConcUninstall(p)
    \/ ConcRefresh(p)
    \/ LoginStep(p)
    \/ ConcRefreshGamesList(p)
    \/ RefreshInitDb(p)
    \/ RefreshMerge(p)
    \/ RefreshReconcile(p)
    \/ InstallReconcile(p)
    \/ InstallMerge(p)
    \/ InstallBaseDir(p)
    \/ InstallResolve(p)
    \/ ConcInstallBackend(p)
    \/ InstallCommit(p)
    \/ UninstallReconcile(p)
    \/ UninstallResolve(p)
    \/ UninstallBackend(p)
    \/ UninstallCommit(p)
    \/ Exit(p)

NextConc ==
    \/ \E p \in Procs : StepConc(p)
    \/ DiskRemove

SpecConc == Init /\ [][NextConc]_vars

-----------------------------------------------------------------------------
(* Properties *)

\* the record a command's title has in table db
RecordOf(db, uuid) == read_game_record(db, uuid, None)

Unset(r) == r.install_dir = NOT_INSTALLED /\ r.executable = NOT_INSTALLED

\* C1: when the install or uninstall backend does not report success, or
\* the command ends with an error, the command has called neither
\* write_game_record nor delete_game_record, and the Record Store is the one
\* the backend was invoked on.
C1_FailureLeavesStore ==
    \A p \in Procs :
        inv[p].pc = "done" =>
            /\ inv[p].status # "ok" => ~inv[p].committed
            /\ (inv[p].backend \in {"install", "uninstall"}
                /\ inv[p].result.status # "success")
               => (store = inv[p].store0 /\ ~inv[p].committed)

\* a failed re-install has left the installed record of the title in place
C1_Witness ==
    /\ inv[1].pc = "done"
    /\ inv[1].backend = "install"
    /\ inv[1].result.status = "failed"
    /\ RecordOf(store, inv[1].uuid).install_dir # NOT_INSTALLED

\* C2: when an uninstall command has succeeded, the record of the title it
\* was given is absent or has both fields NOT_INSTALLED.
C2_RoundTrip ==
    \A p \in Procs :
        (inv[p].pc = "done" /\ inv[p].cmd = "uninstall" /\ inv[p].status = "ok")
        => LET id == get_uuid_from_name(inv[p].games, inv[p].game)
               r == RecordOf(store, id)
           IN  r = NoRecord \/ Unset(r)

\* the positions at which a command reports, chooses by or acts on the
\* install state of a title
UsePoints ==
    {"list135", "install188", "install193", "install200",
     "uninstall249", "uninstall253", "launch271", "launch277"}

PastRefresh(p) ==
    \/ inv[p].pc \in {"list133", "list135", "download170", "download174",
                      "info231", "info232", "info236",
                      "install187", "install188", "install189", "install193",
                      "install200", "install204", "uninstall248", "uninstall249",
                      "uninstall253", "uninstall254", "launch271", "launch277"}
    \/ inv[p].pc = "done" /\ inv[p].cmd # "login" /\ inv[p].status \in {"ok", "failed"}

\* C4 as stated: once a command has run the reconciliation pass, every
\* record that said installed for a directory already gone when the command
\* started is absent or has both fields NOT_INSTALLED.
C4_SelfHealing_AsStated ==
    \A p \in Procs :
        PastRefresh(p) =>
            \A u \in inv[p].missing0 :
                RecordOf(store, u) = NoRecord \/ Unset(RecordOf(store, u))

\* C4 as amended: the same, unless the command is an install that has
\* committed a new record for that title.
C4_SelfHealing ==
    \A p \in Procs :
        PastRefresh(p) =>
            \A u \in inv[p].missing0 :
                \/ RecordOf(store, u) = NoRecord
                \/ Unset(RecordOf(store, u))
                \/ inv[p].cmd = "install" /\ inv[p].committed /\ inv[p].uuid = u

\* refresh has ended and a record whose directory was gone is downgraded
C4_Witness ==
    /\ inv[1].pc = "done"
    /\ inv[1].cmd = "refresh"
    /\ inv[1].status = "ok"
    /\ \E u \in inv[1].missing0 :
          RecordOf(store, u) # NoRecord /\ Unset(RecordOf(store, u))

\* C5: every record of the Record Store has executable set if and only if
\* install_dir is set.
C5_RecordInvariant ==
    \A i \in DOMAIN store :
        (store[i].executable # NOT_INSTALLED) <=> (store[i].install_dir # NOT_INSTALLED)

\* an install has committed a record with both fields set
C5_Witness ==
    /\ inv[1].pc = "done"
    /\ inv[1].cmd = "install"
    /\ inv[1].committed
    /\ \E i \in DOMAIN store :
          store[i].install_dir # NOT_INSTALLED /\ store[i].executable # NOT_INSTALLED

\* C6: the removal backend is invoked only for a title whose reconciled
\* record is an installed one (the title being one of the current catalog).
C6_UninstallPrecondition ==
    \A p \in Procs :
        inv[p].backend = "uninstall" =>
            LET id == get_uuid_from_name(inv[p].games, inv[p].game)
                r == RecordOf(inv[p].store0, id)
            IN  ~IsError(id) => (r # NoRecord /\ r.install_dir # NOT_INSTALLED)

\* what the commit of a finished command has left in the Record Store
Effect(p) ==
    IF inv[p].cmd = "install"
    THEN RecordOf(store, inv[p].uuid) =
            Record(inv[p].uuid, inv[p].game, inv[p].result.install_path,
                   Answer(inv[p].result, None))
    ELSE RecordOf(store, inv[p].uuid) = NoRecord \/ Unset(RecordOf(store, inv[p].uuid))

Refreshed(t, c, fs) == refresh_game_installation_status(init_games_db(t, c), fs)

C9_NoSilentPick ==
    \A p \in Procs :
        \A rd \in inv[p].reads : rd[2] \in {None, rd[1]}

\* C10: after a successful backend install the prompt is shown if and only
\* if there is more than one candidate, it is given the backend's list, and
\* a single candidate becomes the committed executable without a prompt.
C10_ExecutableDisambiguation ==
    \A p \in Procs :
        (inv[p].pc = "done" /\ inv[p].cmd = "install"
         /\ inv[p].result.status = "success") =>
            LET files == inv[p].result.executable_files
            IN  /\ inv[p].prompted <=> Len(files) > 1
                /\ inv[p].prompted => inv[p].choices = files
                /\ Len(files) = 1 =>
                      /\ inv[p].committed
                      /\ RecordOf(store, inv[p].uuid).executable =
                            Join(inv[p].result.install_path, Basename(files[1]))

\* the prompt was shown for two candidates and its answer committed
C10_Witness ==
    /\ inv[1].pc = "done"
    /\ inv[1].cmd = "install"
    /\ inv[1].committed
    /\ inv[1].prompted
    /\ Len(inv[1].choices) = 2

\* C11: when the install backend has reported success with no candidate
\* executable, the command ends with NoExecutableFound, has not called
\* write_game_record, and the Record Store is the one the backend was
\* invoked on.
C11_ZeroCandidates ==
    \A p \in Procs :
        (inv[p].pc = "done" /\ inv[p].cmd = "install"
         /\ inv[p].result.status = "success"
         /\ Len(inv[p].result.executable_files) = 0) =>
            /\ inv[p].status = "NoExecutableFound"
            /\ ~inv[p].committed
            /\ store = inv[p].store0

\* the ids of the catalog entries list has to emit under its flags, each
\* entry judged by the record of its own id
ListExpected(p) ==
    LET only_installed == inv[p].installed /\ ~inv[p].not_installed
        only_not_installed == inv[p].not_installed /\ ~inv[p].installed
        IsInstalled(u) == /\ RecordOf(store, u) # NoRecord
                          /\ RecordOf(store, u).install_dir # NOT_INSTALLED
    IN  {inv[p].games[i].installer_uuid :
            i \in {j \in DOMAIN inv[p].games :
                     LET u == inv[p].games[j].installer_uuid
                     IN  /\ only_installed => IsInstalled(u)
                         /\ only_not_installed => ~IsInstalled(u)}}

\* C12: the titles list emits are those of the catalog whose own
\* reconciled record passes the filter: the installed ones with
\* --installed, the others with --not-installed, all of them with both
\* flags or with neither.
C12_ListFiltering ==
    \A p \in Procs :
        (inv[p].pc = "done" /\ inv[p].cmd = "list" /\ inv[p].status = "ok") =>
            {inv[p].listed[i] : i \in DOMAIN inv[p].listed} = ListExpected(p)

\* C13 as stated: no step of a download command changes the Record Store
\* (the passes of a refresh only add placeholders and downgrade records,
\* and download undoes neither, so the store at the end of the command is
\* the one at its start exactly when no step has changed it).
C13_DownloadPure_AsStated ==
    [][\A p \in Procs : inv[p].cmd = "download" => store' = store]_vars

\* C13 as amended: the refresh a download command starts with changes the
\* Record Store only by init_games_db and by the reconciliation pass, and
\* from the return of refresh on no step of the command changes it.
C13_DownloadPure ==
    [][\A p \in Procs :
        inv[p].cmd = "download" =>
            IF inv[p].pc \in {"download170", "download174", "done"}
            THEN store' = store
            ELSE store' \in {store,
                             init_games_db(store, inv[p].games),
                             refresh_game_installation_status(store, disk)}
      ]_vars

\* a download has fetched a title on a store that holds an installed record
C13_Witness ==
    /\ inv[1].pc = "done"
    /\ inv[1].cmd = "download"
    /\ inv[1].backend = "download"
    /\ inv[1].status = "ok"
    /\ \E i \in DOMAIN store : store[i].install_dir # NOT_INSTALLED

\* the steps of login and refresh that may raise: lines 90-91, 107-112
RefreshSteps == {"login", "refresh_games_list", "init_games_db", "merge"}

\* C14: when login or a step of refresh raises, the command ends there with
\* that error: nothing else of the invocation changes, no backend has been
\* invoked, no record written or deleted, the Record Store and the disk are
\* as before the step; and an invocation that has ended does nothing more
\* (no retry) but exit.
C14_ErrorsStop ==
    [][\A p \in Procs :
        /\ (inv[p].pc \in RefreshSteps /\ inv'[p].status \notin {None, "ok"}) =>
              /\ inv'[p] = [inv[p] EXCEPT !.pc = "done",
                                          !.status = inv'[p].status]
              /\ inv[p].backend = None
              /\ ~inv[p].committed
              /\ store' = store
              /\ disk' = disk
        /\ (inv[p].pc = "done" /\ inv'[p] # inv[p]) =>
              /\ inv'[p] = Idle
              /\ store' = store
              /\ disk' = disk
      ]_vars

\* an install command has ended on a Record Store error raised by
\* init_games_db or by the merge, before any backend was invoked
C14_Witness ==
    /\ inv[1].pc = "done"
    /\ inv[1].cmd = "install"
    /\ inv[1].status = "IOError"
    /\ inv[1].backend = None
    /\ inv[1].games # <<>>

-----------------------------------------------------------------------------
(* install on a configuration file with or without base_install_dir *)

\* the configuration file as main() may find it: the key missing, empty,
\* or set
InitConfig ==
    /\ store = <<>>
    /\ disk = {}
    /\ consoleClass \in {"heirloom.console.Console", "ContextManager"}
    /\ quietGlobal \in {"NameError", "False"}
    /\ configFile \in {None, "", "base"}
    /\ inv = [p \in Procs |-> Idle]

StepConfig(p) ==
    \/ install_game(p)
    \/ LoginStep(p)
    \/ RefreshGamesList(p)
    \/ RefreshInitDb(p)
    \/ RefreshMerge(p)
    \/ RefreshReconcile(p)
    \/ InstallReconcile(p)
    \/ InstallMerge(p)
    \/ InstallBaseDir(p)
    \/ InstallResolve(p)
    \/ InstallBackend(p)
    \/ InstallCommit(p)
    \/ Exit(p)

NextConfig ==
    \/ \E p \in {1} : StepConfig(p)
    \/ DiskRemove

SpecConfig == InitConfig /\ [][NextConfig]_vars

\* C15: the install backend is invoked only with a base_install_dir in
\* self.config; the prompt is shown only when the configuration file has
\* none; and when an install that collected the value at the prompt has
\* ended, the configuration file holds that value (so the next invocation,
\* which starts from the file, is not asked again).
C15_BaseInstallDir ==
    \A p \in Procs :
        /\ inv[p].backend = "install" => ~Falsy(inv[p].base_install_dir)
        /\ inv[p].asked => Falsy(configFile)
        /\ (inv[p].pc = "done" /\ inv[p].asked /\ ~Falsy(inv[p].base_install_dir))
              => configFile = inv[p].base_install_dir

-----------------------------------------------------------------------------

\* where download, info, install, uninstall and launch settle the title;
\* game and uuid are the caller's arguments up to there
ResolveSteps ==
    {"download170", "info232", "install193", "uninstall249", "launch271"}

\* C16: select_from_games_list is called at the step that settles the
\* title, there if and only if the caller gave neither a name nor an id,
\* and nowhere else; with an id alone the command goes on with that id and
\* the name the catalog has for it.
C16_InteractiveSelection ==
    [][\A p \in Procs :
        /\ (inv[p].pc \in ResolveSteps /\ inv'[p] # inv[p]) =>
              /\ inv'[p].selected <=> (inv[p].game = None /\ inv[p].uuid = None)
              /\ (inv[p].game = None /\ inv[p].uuid # None
                  /\ inv'[p].pc # "done") =>
                    /\ inv'[p].uuid = inv[p].uuid
                    /\ inv'[p].game = get_game_from_uuid(inv[p].games, inv[p].uuid)
        /\ inv[p].pc \notin ResolveSteps => (inv'[p].selected => inv[p].selected)
      ]_vars

\* C17: when refresh has returned, every entry of heirloom.games carries
\* the install_dir and executable of the record the Record Store holds for
\* its id (NOT_INSTALLED for both if it holds none).
C17_SessionViewAgrees ==
    \A p \in Procs :
        (inv[p].pc = "done" /\ inv[p].cmd = "refresh" /\ inv[p].status = "ok") =>
            \A i \in DOMAIN inv[p].games :
                LET g == inv[p].games[i]
                    r == RecordOf(store, g.installer_uuid)
                IN  IF r = NoRecord
                    THEN g.install_dir = NOT_INSTALLED /\ g.executable = NOT_INSTALLED
                    ELSE g.install_dir = r.install_dir /\ g.executable = r.executable

\* C18: for either value of quiet, a step wrapped in
\* `with self.console.status(...)` ends as its body ends, with the body's
\* success or the body's own error: the `with` statement itself never
\* raises on what Console.status returned.
C18_StatusBlocksRun ==
    [][\A p \in Procs :
        (inv[p].pc \in RefreshSteps /\ inv'[p] # inv[p]) =>
            /\ ~WithRaises(p)
            /\ inv'[p].status \in {None, "ok", "AuthExpired", "NetworkError",
                                   "IOError"}
      ]_vars

\* C19: the record an install has written has the id and the name of one
\* entry of the catalog, and that entry is the title whose installer the
\* backend ran (heirloom.install_game is called with the name).
C19_CommittedIdentity ==
    \A p \in Procs :
        (inv[p].pc = "done" /\ inv[p].cmd = "install" /\ inv[p].committed) =>
            LET r == RecordOf(store, inv[p].uuid)
            IN  /\ r.name = inv[p].game
                /\ \E i \in DOMAIN inv[p].games :
                      /\ inv[p].games[i].installer_uuid = r.uuid
                      /\ inv[p].games[i].game_name = r.name
                /\ get_uuid_from_name(inv[p].games, inv[p].game) = r.uuid

\* C20: the external process is started only for a title whose record,
\* after reconciliation, has an executable other than NOT_INSTALLED, and on
\* that executable.
C20_LaunchOnlyInstalled ==
    \A p \in Procs :
        inv[p].launched # None =>
            LET r == RecordOf(store, inv[p].uuid)
            IN  /\ inv[p].reconciled
                /\ r # NoRecord
                /\ r.executable # NOT_INSTALLED
                /\ inv[p].launched = r.executable

====
